---- MODULE Spec2Model ----
(***************************************************************************)
(* Model of voice_db/import_studies.py: the batch import of study JSON     *)
(* files into a MongoDB collection (import_json_studies), with its schema  *)
(* (study_schema), its three duplicate-detection menu choices and its      *)
(* end-of-run reports.                                                     *)
(***************************************************************************)
EXTENDS Integers, Sequences, FiniteSets, TLC

(***************************************************************************)
(* Decoded JSON values.  k is the JSON type as jsonschema sees the Python  *)
(* value json.load produced ("float" is a non-integral number), v the      *)
(* payload: a string, a sequence of values (array) or a function from keys *)
(* to values (object).                                                     *)
(***************************************************************************)
JStr(s)  == [k |-> "string",  v |-> s]
JInt     == [k |-> "integer", v |-> "2020"]
JFloat   == [k |-> "float",   v |-> "0.95"]
JBool    == [k |-> "boolean", v |-> "true"]
JNull    == [k |-> "null",    v |-> "null"]
JArr(q)  == [k |-> "array",   v |-> q]
JObj(f)  == [k |-> "object",  v |-> f]

Keys(j) == IF j.k = "object" THEN DOMAIN j.v ELSE {}

\* f with key overwritten / added, and f without key
With(f, key, val) == [x \in (DOMAIN f) \cup {key} |-> IF x = key THEN val ELSE f[x]]
Without(f, key)   == [x \in (DOMAIN f) \ {key} |-> f[x]]

(***************************************************************************)
(* study_schema, lines 7-141, keyword for keyword.  "type" is always       *)
(* written as the set of accepted type names.                              *)
(***************************************************************************)
StringT     == [type |-> {"string"}]
StringList  == [type |-> {"array"}, items |-> StringT]

affiliation_schema ==
    [type |-> {"object"},
     properties |-> [institution |-> StringT, country |-> StringT],
     required |-> {"institution", "country"}]

author_schema ==
    [type |-> {"object"},
     properties |-> [name |-> StringT,
                     affiliations |-> [type |-> {"array"}, items |-> affiliation_schema]],
     required |-> {"name"}]

dataset_schema ==
    [type |-> {"array"},
     items |-> [type |-> {"object"},
                properties |-> [name |-> StringT,
                                size |-> [type |-> {"integer", "string", "null"}],
                                pd_patients |-> [type |-> {"integer", "null"}],
                                controls |-> [type |-> {"integer", "null"}],
                                url |-> [type |-> {"string", "null"}],
                                doi |-> [type |-> {"string", "null"}]],
                required |-> {"name"}]]

feature_selection_schema ==
    [oneOf |-> << [type |-> {"null"}],
                  [type |-> {"object"},
                   properties |-> [methods |-> StringList, combination |-> StringT],
                   required |-> {"methods"}] >>]

\* results_schema without its constraint on the values
results_schema_unconstrained == [type |-> {"object"}]

results_schema ==
    [type |-> {"object"},
     patternProperties |-> [p \in {".*"} |-> [type |-> {"number", "string", "null"}]],
     additionalProperties |-> FALSE]

approach_schema ==
    [type |-> {"object"},
     properties |-> [algorithm |-> StringT,
                     framework |-> [type |-> {"string", "null"}],
                     feature_extraction |-> StringList,
                     feature_selection |-> feature_selection_schema,
                     missing_value_handling |-> StringList,
                     outlier_handling |-> StringList,
                     imbalance_handling |-> StringList,
                     scaling |-> StringList,
                     dimensionality_reduction |-> StringList,
                     sample_selection |-> StringList,
                     input_speech |-> StringT,
                     validation |-> [type |-> {"string", "null"}],
                     results |-> results_schema],
     required |-> {"algorithm", "results"}]

RequiredFields ==
    {"study_id", "title", "authors", "publication_type", "journal", "year", "doi",
     "ml_approaches"}

study_schema ==
    [type |-> {"object"},
     properties |-> [study_id |-> StringT,
                     title |-> StringT,
                     authors |-> [type |-> {"array"}, items |-> author_schema],
                     ml_problem_type |-> StringList,
                     problem |-> StringT,
                     publication_type |-> StringT,
                     journal |-> StringT,
                     year |-> [type |-> {"integer", "string"}],
                     doi |-> StringT,
                     abstract |-> StringT,
                     source_dataset |-> dataset_schema,
                     target_dataset |-> dataset_schema,
                     ml_approaches |-> [type |-> {"array"}, items |-> approach_schema]],
     required |-> RequiredFields,
     additionalProperties |-> TRUE]

(***************************************************************************)
(* jsonschema.validate(instance, schema), for the keywords study_schema    *)
(* uses.  A keyword applies only to instances of the type it is about.     *)
(***************************************************************************)
\* jsonschema's type checker: a bool is neither an integer nor a number
TypeMatches(kind, t) ==
    CASE t = "number"  -> kind \in {"integer", "float"}
      [] t = "integer" -> kind = "integer"
      [] OTHER         -> kind = t

\* re.search(pattern, key): ".*" matches (possibly the empty string) in every key
PatternMatches(pattern, key) == pattern = ".*"

RECURSIVE Valid(_, _)
Valid(inst, sch) ==
    LET has(kw) == kw \in DOMAIN sch
        props   == IF has("properties") THEN DOMAIN sch.properties ELSE {}
        pats    == IF has("patternProperties") THEN DOMAIN sch.patternProperties ELSE {}
    IN  /\ has("type") => \E t \in sch.type : TypeMatches(inst.k, t)
        /\ (has("required") /\ inst.k = "object") => sch.required \subseteq DOMAIN inst.v
        /\ (has("properties") /\ inst.k = "object") =>
               \A key \in (DOMAIN inst.v) \cap props :
                   Valid(inst.v[key], sch.properties[key])
        /\ (has("patternProperties") /\ inst.k = "object") =>
               \A key \in DOMAIN inst.v : \A p \in pats :
                   PatternMatches(p, key) => Valid(inst.v[key], sch.patternProperties[p])
        /\ (has("additionalProperties") /\ inst.k = "object") =>
               \/ sch.additionalProperties
               \/ \A key \in DOMAIN inst.v :
                      key \in props \/ \E p \in pats : PatternMatches(p, key)
        /\ (has("items") /\ inst.k = "array") =>
               \A i \in DOMAIN inst.v : Valid(inst.v[i], sch.items)
        /\ has("oneOf") =>
               Cardinality({i \in DOMAIN sch.oneOf : Valid(inst, sch.oneOf[i])}) = 1

\* validation with a minimum length of one on ml_approaches
ValidateNonEmpty(data) ==
    /\ Valid(data, study_schema)
    /\ data.v["ml_approaches"].v # <<>>

\* validate(instance=data, schema=study_schema) raises no ValidationError
Validate(data) == Valid(data, study_schema)


(***************************************************************************)
(* Python truthiness of a decoded value ("data[...]" used as a condition)  *)
(* and of the three values skip_duplicate_check takes (True, False and the *)
(* string "basic", written "True", "False", "basic").                      *)
(***************************************************************************)
Truthy(j) ==
    CASE j.k = "string"  -> j.v # ""
      [] j.k = "null"    -> FALSE
      [] j.k = "boolean" -> j.v = "true"
      [] j.k = "array"   -> Len(j.v) > 0
      [] j.k = "object"  -> DOMAIN j.v # {}
      [] OTHER           -> j.v # "0"

PyTruthy(x) == x \notin {"False", ""}

\* the menu with the answers "1" and "2" exchanged
SkipFlagExchanged(choice) ==
    IF choice = "1" THEN "False"
    ELSE IF choice = "2" THEN "True"
    ELSE "basic"

\* lines 164-172: the menu choice decides skip_duplicate_check
SkipFlag(choice) ==
    IF choice = "1" THEN "True"
    ELSE IF choice = "2" THEN "False"
    ELSE "basic"

(***************************************************************************)
(* The duplicate query, lines 204-240.                                     *)
(***************************************************************************)
JEq(a, b) == a.k = b.k /\ a.v = b.v

RECURSIVE NamesFrom(_, _)
\* [d.get("name", "") for d in data["dataset"] if isinstance(d, dict)]
NamesFrom(q, i) ==
    IF i > Len(q) THEN <<>>
    ELSE LET d    == q[i]
             rest == NamesFrom(q, i + 1)
         IN  IF d.k # "object" THEN rest
             ELSE <<IF "name" \in DOMAIN d.v THEN d.v["name"] ELSE JStr("")>> \o rest

\* lines 220-222 and 230-232
DatasetNames(data) ==
    IF "dataset" \in Keys(data) /\ data.v["dataset"].k = "array"
    THEN NamesFrom(data.v["dataset"].v, 1)
    ELSE <<>>

Eq(val)     == [op |-> "$eq", arg |-> val]
In(vals)    == [op |-> "$in", arg |-> vals]
Exists      == [op |-> "$exists", arg |-> <<>>]

\* the dataset clause without its fallback to $exists
DatasetClauseStrict(data) == In(DatasetNames(data))

\* lines 224-227 and 234-237
DatasetClause(data) ==
    IF Len(DatasetNames(data)) > 0 THEN In(DatasetNames(data)) ELSE Exists

HasDoi(data) == "doi" \in Keys(data) /\ Truthy(data.v["doi"])

BasicQuery(data) ==
    IF HasDoi(data) THEN [f \in {"doi"} |-> Eq(data.v["doi"])]
    ELSE IF "title" \in Keys(data) THEN [f \in {"title"} |-> Eq(data.v["title"])]
    ELSE <<>>

EnhancedQuery(data) ==
    IF HasDoi(data)
    THEN [f \in {"doi", "dataset.name"} |->
              IF f = "doi" THEN Eq(data.v["doi"]) ELSE DatasetClause(data)]
    ELSE IF "title" \in Keys(data)
    THEN [f \in {"title", "dataset.name"} |->
              IF f = "title" THEN Eq(data.v["title"]) ELSE DatasetClause(data)]
    ELSE <<>>

\* line 206: which of the two branches builds the query
Query(data, skip) ==
    IF skip = "basic" THEN BasicQuery(data) ELSE EnhancedQuery(data)

\* lines 213 and 239
ReasonText(data, skip) ==
    LET hasdoi == "doi" \in DOMAIN Query(data, skip)
    IN  IF skip = "basic" THEN (IF hasdoi THEN "doi" ELSE "title")
        ELSE (IF hasdoi THEN "doi+dataset" ELSE "title+dataset")

\* line 246: data.get("doi", data.get("title", "unknown"))
ReportValue(data) ==
    IF "doi" \in Keys(data) THEN data.v["doi"]
    ELSE IF "title" \in Keys(data) THEN data.v["title"]
    ELSE JStr("unknown")

(***************************************************************************)
(* collection.find_one(query) as MongoDB evaluates it: a dotted path walks *)
(* embedded documents and fans out over the documents of an array; a       *)
(* document matches when every clause of the query matches; the first      *)
(* match in insertion order is returned (0 stands for None).               *)
(***************************************************************************)
FieldPath(f) == IF f = "dataset.name" THEN <<"dataset", "name">> ELSE <<f>>

RECURSIVE Resolve(_, _)
RECURSIVE ResolveEach(_, _, _)
Resolve(j, path) ==
    IF path = <<>> THEN <<j>>
    ELSE IF j.k = "object"
         THEN (IF Head(path) \in DOMAIN j.v
               THEN Resolve(j.v[Head(path)], Tail(path)) ELSE <<>>)
    ELSE IF j.k = "array" THEN ResolveEach(j.v, path, 1)
    ELSE <<>>
ResolveEach(q, path, i) ==
    IF i > Len(q) THEN <<>>
    ELSE (IF q[i].k = "object" THEN Resolve(q[i], path) ELSE <<>>)
         \o ResolveEach(q, path, i + 1)

\* a stored value equals val, or is an array holding val
LeafEq(x, val) ==
    \/ JEq(x, val)
    \/ x.k = "array" /\ \E i \in DOMAIN x.v : JEq(x.v[i], val)

ClauseMatches(doc, f, c) ==
    LET found == Resolve(doc, FieldPath(f))
    IN  CASE c.op = "$eq"     -> \E i \in DOMAIN found : LeafEq(found[i], c.arg)
          [] c.op = "$in"     -> \E i \in DOMAIN found : \E n \in DOMAIN c.arg :
                                     LeafEq(found[i], c.arg[n])
          [] c.op = "$exists" -> Len(found) > 0

Matches(doc, query) == \A f \in DOMAIN query : ClauseMatches(doc, f, query[f])

FindOne(coll, query) ==
    LET hits == {i \in DOMAIN coll : Matches(coll[i].doc, query)}
    IN  IF hits = {} THEN 0 ELSE CHOOSE i \in hits : \A h \in hits : i <= h

\* collection.insert_one(data): the new document gets a fresh _id
InsertOne(coll, data) == Append(coll, [id |-> Len(coll) + 1, doc |-> data])


(***************************************************************************)
(* Bounds of the model and the inputs drawn within them.                   *)
(***************************************************************************)
\* longest directory listing built from CoreFiles
MaxFiles == 2
\* times the import is run over the same directory
MaxRuns == 2
\* store operations that raise, over a whole behaviour
MaxFaults == 1

Approach(results) == JObj([algorithm |-> JStr("SVM"), results |-> JObj(results)])
GoodApproach      == Approach([accuracy |-> JFloat])

Named(n) == JObj([name |-> JStr(n)])

\* a record that satisfies study_schema
Study(doi, title) ==
    [study_id         |-> JStr("S1"),
     title            |-> JStr(title),
     authors          |-> JArr(<<JObj([name |-> JStr("N")])>>),
     publication_type |-> JStr("article"),
     journal          |-> JStr("J"),
     year             |-> JInt,
     doi              |-> JStr(doi),
     ml_approaches    |-> JArr(<<GoodApproach>>)]

BaseStudy == Study("X", "T")

\* values of the (schema-free) "dataset" key
DatasetValues ==
    << JArr(<<Named("A")>>), JArr(<<Named("A"), Named("B")>>), JArr(<<Named("C")>>),
       JArr(<<>>), JArr(<<JObj(<<>>)>>), JArr(<<JStr("A")>>), JStr("A") >>

\* values of one entry of a results mapping
ResultValues == << JFloat, JInt, JStr("high"), JNull, JBool, JObj(<<>>), JArr(<<>>) >>

\* decoded documents a file may hold
Documents ==
       << JObj(BaseStudy), JObj(Study("Y", "U")), JObj(Study("", "T")),
          JObj(Study("Y", "T")), JObj(Study("", "U")) >>
    \o [i \in 1..Len(DatasetValues) |-> JObj(With(BaseStudy, "dataset", DatasetValues[i]))]
    \o [i \in 1..Len(DatasetValues) |->
            JObj(With(Study("", "T"), "dataset", DatasetValues[i]))]
    \o [i \in 1..Len(ResultValues) |->
            JObj(With(BaseStudy, "ml_approaches",
                      JArr(<<GoodApproach, Approach([accuracy |-> JFloat,
                                                     auc |-> ResultValues[i]])>>)))]
    \o << JObj(Without(BaseStudy, "study_id")), JObj(Without(BaseStudy, "title")),
          JObj(Without(BaseStudy, "authors")), JObj(Without(BaseStudy, "publication_type")),
          JObj(Without(BaseStudy, "journal")), JObj(Without(BaseStudy, "year")),
          JObj(Without(BaseStudy, "doi")), JObj(Without(BaseStudy, "ml_approaches")),
          JObj(With(BaseStudy, "ml_approaches", JArr(<<>>))),
          JObj(With(BaseStudy, "ml_approaches", JArr(<<Approach(<<>>)>>))),
          JObj(With(BaseStudy, "ml_approaches",
                    JArr(<<JObj([algorithm |-> JStr("SVM")])>>))),
          JObj(With(BaseStudy, "ml_approaches",
                    JArr(<<JObj([results |-> JObj(<<>>)])>>))),
          JObj(With(BaseStudy, "ml_approaches", JArr(<<JStr("SVM")>>))),
          JObj(With(BaseStudy, "ml_approaches", JStr("SVM"))),
          JObj(With(BaseStudy, "year", JStr("2020"))),
          JObj(With(BaseStudy, "year", JFloat)),
          JObj(With(BaseStudy, "doi", JNull)),
          JObj(With(BaseStudy, "authors", JArr(<<JObj(<<>>)>>))),
          JObj(With(BaseStudy, "abstract", JStr("text"))),
          JArr(<<JObj(BaseStudy)>>) >>

\* a directory entry: its extension, whether open() succeeds, what reading and
\* decoding it gives ("json": data; "malformed": JSONDecodeError; "binary":
\* UnicodeDecodeError)
JsonFile(d)   == [ext |-> ".json", openable |-> TRUE,  body |-> "json",      data |-> d]
Malformed     == [ext |-> ".json", openable |-> TRUE,  body |-> "malformed", data |-> JNull]
Binary        == [ext |-> ".json", openable |-> TRUE,  body |-> "binary",    data |-> JNull]
Unopenable    == [ext |-> ".json", openable |-> FALSE, body |-> "json",      data |-> JNull]
OtherFile     == [ext |-> ".txt",  openable |-> TRUE,  body |-> "malformed", data |-> JNull]

AllFiles  == [i \in 1..Len(Documents) |-> JsonFile(Documents[i])]
                 \o << Malformed, Binary, Unopenable, OtherFile >>
CoreFiles == << JsonFile(JObj(BaseStudy)),
                JsonFile(JObj(With(BaseStudy, "dataset", JArr(<<Named("A")>>)))),
                JsonFile(JObj(Without(BaseStudy, "doi"))),
                Malformed, Unopenable, OtherFile >>

RECURSIVE Listings(_)
Listings(n) ==
    IF n = 0 THEN {<<>>}
    ELSE LET shorter == Listings(n - 1)
         IN  shorter \cup {Append(q, CoreFiles[i]) : q \in shorter, i \in DOMAIN CoreFiles}

Stored(i, d) == [id |-> i, doc |-> d]

\* what the collection holds before the first run
InitialStores ==
    { <<>>,
      << Stored(1, JObj(With(BaseStudy, "dataset", JArr(<<Named("A")>>)))) >>,
      << Stored(1, JObj(BaseStudy)) >>,
      << Stored(1, JObj(With(Study("", "T"), "dataset", JArr(<<Named("A")>>)))) >>,
      << Stored(1, JObj(With(BaseStudy, "dataset", JArr(<<>>)))) >>,
      << Stored(1, JObj(With(BaseStudy, "dataset", JArr(<<Named("C")>>)))),
         Stored(2, JObj(With(BaseStudy, "dataset", JArr(<<Named("B"), Named("A")>>)))),
         Stored(3, JObj([title |-> JStr("T")])) >> }

\* the stores tried with the longer listings
CoreStores ==
    { <<>>,
      << Stored(1, JObj(With(BaseStudy, "dataset", JArr(<<Named("A")>>)))) >> }

Inputs ==
    ({<<AllFiles[i]>> : i \in DOMAIN AllFiles} \X InitialStores)
        \cup (Listings(MaxFiles) \X CoreStores)

DupChoices == {"1", "2", "3"}


(***************************************************************************)
(* State.  The first group are the variables of import_json_studies and    *)
(* what it acts on; the second group records what happened, for the        *)
(* properties below.                                                       *)
(***************************************************************************)
VARIABLES
    files,                \* the directory in os.walk order
    dup_choice,           \* the answer to the duplicate-detection prompt
    collection,           \* the MongoDB collection: documents with their _id
    disk,                 \* the report files in the working directory
    pc,                   \* where the run is
    skip_duplicate_check,
    count_inserted, count_skipped, count_invalid, count_load_errors,
    duplicate_report, validation_report, load_error_report,
    idx,                  \* position of the loop in files (file_path)
    data,                 \* the decoded document
    run,                  \* number of the current run
    faults,               \* store operations that raised so far
    stages,               \* calls made for the current file, in order
    log,                  \* one entry per file the loop finished, this run
    completed,            \* runs that reached their end
    written               \* report files written by this run

counters == <<count_inserted, count_skipped, count_invalid, count_load_errors>>
reports  == <<duplicate_report, validation_report, load_error_report>>
vars == <<files, dup_choice, collection, disk, pc, skip_duplicate_check, counters,
          reports, idx, data, run, faults, stages, log, completed, written>>

ReportNames == {"duplicate_report.json", "validation_report.json", "load_error_report.json"}

Init ==
    /\ \E input \in Inputs : files = input[1] /\ collection = input[2]
    /\ dup_choice \in DupChoices
    /\ disk = [n \in {} |-> <<>>]
    /\ pc = "start"
    /\ skip_duplicate_check = "False"
    /\ count_inserted = 0 /\ count_skipped = 0 /\ count_invalid = 0
    /\ count_load_errors = 0
    /\ duplicate_report = <<>> /\ validation_report = <<>> /\ load_error_report = <<>>
    /\ idx = 0
    /\ data = JNull
    /\ run = 1
    /\ faults = 0
    /\ stages = <<>>
    /\ log = <<>>
    /\ completed = 0
    /\ written = {}

\* the current file is done: record how, and go back to the loop
Outcome(kind, after) ==
    /\ log' = Append(log, [file |-> idx, outcome |-> kind, stages |-> stages',
                           before |-> collection, after |-> after])
    /\ pc' = "walk"

\* the handler without its count
UnexpectedUncounted(error_type) ==
    /\ load_error_report' = Append(load_error_report,
           [file |-> idx, error_type |-> error_type, error_message |-> error_type])
    /\ count_load_errors' = count_load_errors

\* except Exception (lines 268-275)
Unexpected(error_type) ==
    /\ load_error_report' = Append(load_error_report,
           [file |-> idx, error_type |-> error_type, error_message |-> error_type])
    /\ count_load_errors' = count_load_errors + 1

\* lines 150-179: the prompts, the connection, the counters
Start ==
    /\ pc = "start"
    /\ \E isdir \in BOOLEAN :
          IF ~isdir
          THEN /\ pc' = "returned"
               /\ UNCHANGED <<skip_duplicate_check, counters, reports, idx, log, written>>
          ELSE /\ skip_duplicate_check' = SkipFlag(dup_choice)
               /\ count_inserted' = 0 /\ count_skipped' = 0 /\ count_invalid' = 0
               /\ count_load_errors' = 0
               /\ duplicate_report' = <<>> /\ validation_report' = <<>>
               /\ load_error_report' = <<>>
               /\ idx' = 0
               /\ log' = <<>>
               /\ written' = {}
               /\ pc' = "walk"
    /\ UNCHANGED <<files, dup_choice, collection, disk, data, run, faults, stages,
                   completed>>

\* lines 182-185: the next directory entry, kept only if it ends in ".json"
NextFile ==
    /\ pc = "walk"
    /\ IF idx = Len(files)
       THEN pc' = "summary" /\ UNCHANGED <<idx, stages>>
       ELSE /\ idx' = idx + 1
            /\ IF files[idx + 1].ext = ".json"
               THEN pc' = "open" /\ stages' = <<>>
               ELSE pc' = "walk" /\ UNCHANGED stages
    /\ UNCHANGED <<files, dup_choice, collection, disk, skip_duplicate_check, counters,
                   reports, data, run, faults, log, completed, written>>

\* line 186: open() stands outside the try, so its error leaves the function
OpenFile ==
    /\ pc = "open"
    /\ stages' = Append(stages, "open")
    /\ pc' = IF files[idx].openable THEN "load" ELSE "crashed"
    /\ UNCHANGED <<files, dup_choice, collection, disk, skip_duplicate_check, counters,
                   reports, idx, data, run, faults, log, completed, written>>

\* line 188 with its handlers, lines 257-275
LoadJson ==
    /\ pc = "load"
    /\ stages' = Append(stages, "load")
    /\ CASE files[idx].body = "json" ->
              /\ data' = files[idx].data
              /\ pc' = "validate"
              /\ UNCHANGED <<load_error_report, count_load_errors, log>>
         [] files[idx].body = "malformed" ->
              /\ load_error_report' = Append(load_error_report,
                     [file |-> idx, error_type |-> "JSON Decode Error",
                      error_message |-> "JSONDecodeError", line |-> "lineno",
                      column |-> "colno"])
              /\ count_load_errors' = count_load_errors + 1
              /\ data' = data
              /\ Outcome("load_error", collection)
         [] OTHER ->
              /\ Unexpected("UnicodeDecodeError")
              /\ data' = data
              /\ Outcome("load_error", collection)
    /\ UNCHANGED <<files, dup_choice, collection, disk, skip_duplicate_check,
                   count_inserted, count_skipped, count_invalid, duplicate_report,
                   validation_report, idx, run, faults, completed, written>>

\* lines 191-200
ValidateData ==
    /\ pc = "validate"
    /\ stages' = Append(stages, "validate")
    /\ IF Validate(data)
       THEN /\ pc' = "dupcheck"
            /\ UNCHANGED <<validation_report, count_invalid, log>>
       ELSE /\ validation_report' = Append(validation_report,
                   [file |-> idx, error |-> "ValidationError"])
            /\ count_invalid' = count_invalid + 1
            /\ Outcome("invalid", collection)
    /\ UNCHANGED <<files, dup_choice, collection, disk, skip_duplicate_check,
                   count_inserted, count_skipped, count_load_errors, duplicate_report,
                   load_error_report, idx, data, run, faults, completed, written>>

\* lines 203-251: the query is built and looked up only if
\* "not skip_duplicate_check" holds
DuplicateCheck ==
    /\ pc = "dupcheck"
    /\ LET query == Query(data, skip_duplicate_check)
           asked == ~PyTruthy(skip_duplicate_check) /\ DOMAIN query # {}
           hit   == FindOne(collection, query)
       IN  IF ~asked
           THEN /\ pc' = "insert"
                /\ UNCHANGED <<stages, duplicate_report, count_skipped, faults, log,
                               load_error_report, count_load_errors>>
           ELSE /\ stages' = Append(stages, "find_one")
                /\ \E raised \in {FALSE} \cup {f \in {TRUE} : faults < MaxFaults} :
                      IF raised
                      THEN /\ faults' = faults + 1
                           /\ Unexpected("ServerSelectionTimeoutError")
                           /\ Outcome("load_error", collection)
                           /\ UNCHANGED <<duplicate_report, count_skipped>>
                      ELSE /\ UNCHANGED <<faults, load_error_report, count_load_errors>>
                           /\ IF hit # 0
                              THEN /\ duplicate_report' = Append(duplicate_report,
                                         [file |-> idx,
                                          reason |-> ReasonText(data, skip_duplicate_check),
                                          value |-> ReportValue(data),
                                          existing_id |-> collection[hit].id])
                                   /\ count_skipped' = count_skipped + 1
                                           /\ Outcome("skipped", collection)
                              ELSE /\ pc' = "insert"
                                   /\ UNCHANGED <<duplicate_report, count_skipped, log>>
    /\ UNCHANGED <<files, dup_choice, collection, disk, skip_duplicate_check,
                   count_inserted, count_invalid, validation_report, idx, data, run,
                   completed, written>>

\* lines 254-255, and the handler of lines 268-275 when insert_one raises
Insert ==
    /\ pc = "insert"
    /\ stages' = Append(stages, "insert_one")
    /\ \E raised \in {FALSE} \cup {f \in {TRUE} : faults < MaxFaults} :
          IF raised
          THEN /\ faults' = faults + 1
               /\ Unexpected("AutoReconnect")
               /\ Outcome("load_error", collection)
               /\ UNCHANGED <<collection, count_inserted>>
          ELSE /\ collection' = InsertOne(collection, data)
               /\ count_inserted' = count_inserted + 1
               /\ Outcome("inserted", InsertOne(collection, data))
               /\ UNCHANGED <<faults, load_error_report, count_load_errors>>
    /\ UNCHANGED <<files, dup_choice, disk, skip_duplicate_check, count_skipped,
                   count_invalid, duplicate_report, validation_report, idx, data, run,
                   completed, written>>

\* the report written without looking at its length
WriteReportUnguarded(st, name, report) ==
    [disk |-> With(st.disk, name, report), written |-> st.written \cup {name}]

\* lines 284-286, 289-291, 294-296: "if report:" guards open(name, "w") and
\* json.dump(report, f)
WriteReport(st, name, report) ==
    IF Len(report) > 0
    THEN [disk |-> With(st.disk, name, report), written |-> st.written \cup {name}]
    ELSE st

\* lines 277-298: the summary, then each non-empty report is written
SaveReports ==
    /\ pc = "summary"
    /\ LET s0 == [disk |-> disk, written |-> written]
           s1 == WriteReport(s0, "duplicate_report.json", duplicate_report)
           s2 == WriteReport(s1, "validation_report.json", validation_report)
           s3 == WriteReport(s2, "load_error_report.json", load_error_report)
       IN  disk' = s3.disk /\ written' = s3.written
    /\ pc' = "done"
    /\ completed' = completed + 1
    /\ UNCHANGED <<files, dup_choice, collection, skip_duplicate_check, counters,
                   reports, idx, data, run, faults, stages, log>>

\* lines 378-386: the tool is started again over the same directory, with the
\* same answers; the collection and the working directory persist
RunAgain ==
    /\ pc \in {"done", "returned", "crashed"}
    /\ run < MaxRuns
    /\ run' = run + 1
    /\ pc' = "start"
    /\ UNCHANGED <<files, dup_choice, collection, disk, skip_duplicate_check, counters,
                   reports, idx, data, faults, stages, log, completed, written>>

Next ==
    \/ Start
    \/ NextFile
    \/ OpenFile
    \/ LoadJson
    \/ ValidateData
    \/ DuplicateCheck
    \/ Insert
    \/ SaveReports
    \/ RunAgain

Spec == Init /\ [][Next]_vars


(***************************************************************************)
(* Vocabulary of the properties.                                           *)
(***************************************************************************)
\* the document file number n decodes to, if it decodes
Decodes(n) == files[n].body = "json"
Doc(n)     == files[n].data

\* what the log entry says of the store operations of its file
Last(q)        == q[Len(q)]
LookupFault(e) == e.outcome = "load_error" /\ Last(e.stages) = "find_one"
InsertFault(e) == e.outcome = "load_error" /\ Last(e.stages) = "insert_one"
Count(q, x)    == Cardinality({i \in DOMAIN q : q[i] = x})
Before(q, x, y) ==
    \E i \in DOMAIN q : \E j \in DOMAIN q : i < j /\ q[i] = x /\ q[j] = y

\* a decoded document that carries every required field, whose approaches all
\* carry algorithm and results, and whose results values are all scalar
Scalar(j) == j.k \in {"integer", "float", "string", "null"}
WellFormed(d) ==
    /\ d.k = "object"
    /\ RequiredFields \subseteq DOMAIN d.v
    /\ d.v["ml_approaches"].k = "array"
    /\ \A i \in DOMAIN d.v["ml_approaches"].v :
          LET a == d.v["ml_approaches"].v[i]
          IN  /\ a.k = "object"
              /\ {"algorithm", "results"} \subseteq DOMAIN a.v
              /\ a.v["results"].k = "object"
              /\ \A key \in DOMAIN a.v["results"].v : Scalar(a.v["results"].v[key])

\* a document that lacks a required field, or holds an object or array among
\* the results of an approach
Defective(d) ==
    /\ d.k = "object"
    /\ \/ ~(RequiredFields \subseteq DOMAIN d.v)
       \/ /\ "ml_approaches" \in DOMAIN d.v
          /\ d.v["ml_approaches"].k = "array"
          /\ \E i \in DOMAIN d.v["ml_approaches"].v :
                LET a == d.v["ml_approaches"].v[i]
                IN  /\ a.k = "object"
                    /\ "results" \in DOMAIN a.v
                    /\ a.v["results"].k = "object"
                    /\ \E key \in DOMAIN a.v["results"].v :
                          a.v["results"].v[key].k \in {"object", "array"}

\* the field a valid candidate is matched on: doi, or title when doi is empty
KeyField(d) == IF d.v["doi"].v # "" THEN "doi" ELSE "title"
SameField(r, d, f) ==
    /\ f \in Keys(r) /\ f \in Keys(d)
    /\ r.v[f].k = "string" /\ d.v[f].k = "string"
    /\ r.v[f].v = d.v[f].v
SameKey(r, d) == SameField(r, d, KeyField(d))

\* dataset names: of a stored record, the names its dataset entries carry; of
\* a candidate, the name of each dataset entry, "" for an entry without one
Entries(d) ==
    IF "dataset" \in Keys(d) /\ d.v["dataset"].k = "array"
    THEN {i \in DOMAIN d.v["dataset"].v : d.v["dataset"].v[i].k = "object"}
    ELSE {}
StoredNames(r) ==
    {r.v["dataset"].v[i].v["name"].v :
        i \in {n \in Entries(r) : "name" \in DOMAIN r.v["dataset"].v[n].v}}
CandidateNames(d) ==
    {IF "name" \in DOMAIN d.v["dataset"].v[i].v
     THEN d.v["dataset"].v[i].v["name"].v ELSE "" : i \in Entries(d)}

EnhancedDuplicate(r, d) ==
    /\ SameKey(r, d)
    /\ IF CandidateNames(d) # {}
       THEN StoredNames(r) \cap CandidateNames(d) # {}
       ELSE StoredNames(r) # {}

\* duplicate_report holds an entry for file n with this reason
Reported(n, reason) ==
    \E i \in DOMAIN duplicate_report :
        /\ duplicate_report[i].file = n
        /\ duplicate_report[i].reason = reason

\* the files the loop is past
Processed ==
    IF pc \in {"open", "load", "validate", "dupcheck", "insert", "crashed"}
    THEN idx - 1 ELSE idx
JsonFiles(n) == {i \in 1..n : files[i].ext = ".json"}

InRun == pc \in {"walk", "open", "load", "validate", "dupcheck", "insert", "summary",
                 "done", "crashed"}


(***************************************************************************)
(* C1.  Basic mode (menu choice 3): a valid candidate whose non-empty doi  *)
(* a stored record already has is flagged duplicate with reason "doi",     *)
(* counted as skipped and not inserted; a valid candidate that shares its  *)
(* doi (its title, when the doi is empty) with no stored record is         *)
(* inserted.  Files whose store operation raised are left aside.           *)
(***************************************************************************)
C1_BasicFlagsSameDoi ==
    dup_choice = "3" =>
        \A i \in DOMAIN log :
            LET e == log[i]
                d == Doc(e.file)
            IN  (Decodes(e.file) /\ e.outcome # "invalid" /\ e.outcome # "load_error") =>
                    /\ (/\ d.v["doi"].v # ""
                        /\ \E j \in DOMAIN e.before : SameField(e.before[j].doc, d, "doi"))
                           => /\ e.outcome = "skipped"
                              /\ Reported(e.file, "doi")
                              /\ e.after = e.before
                    /\ (~\E j \in DOMAIN e.before : SameKey(e.before[j].doc, d))
                           => e.outcome = "inserted"

(***************************************************************************)
(* C2.  Idempotence: when a run with duplicate detection enabled (menu     *)
(* choice 2 or 3) ends after an earlier run over the same directory has    *)
(* ended, no store operation having raised in either, it has inserted      *)
(* nothing.                                                                *)
(***************************************************************************)
C2_SecondRunInsertsNothing ==
    (pc = "done" /\ completed >= 2 /\ faults = 0 /\ dup_choice \in {"2", "3"})
        => count_inserted = 0

(***************************************************************************)
(* C3.  Enhanced mode (menu choice 2): a valid candidate whose lookup did  *)
(* not raise is flagged duplicate, and the store left as it was, exactly   *)
(* when some stored record has its doi (its title, when the doi is empty)  *)
(* and, if the candidate has dataset names, a dataset name in common with  *)
(* it, or, if it has none, some dataset name at all; the reason reported   *)
(* is "doi+dataset", or "title+dataset" when the title was used; a         *)
(* candidate not flagged goes on to insert_one and is inserted unless that *)
(* call raises.                                                            *)
(***************************************************************************)
C3_EnhancedDatasetRule ==
    dup_choice = "2" =>
        \A i \in DOMAIN log :
            LET e   == log[i]
                d   == Doc(e.file)
                dup == \E j \in DOMAIN e.before : EnhancedDuplicate(e.before[j].doc, d)
            IN  (Decodes(e.file) /\ e.outcome # "invalid" /\ ~LookupFault(e)) =>
                    /\ dup => /\ e.outcome = "skipped"
                              /\ e.after = e.before
                              /\ Reported(e.file, IF KeyField(d) = "doi" THEN "doi+dataset"
                                                  ELSE "title+dataset")
                    /\ ~dup => /\ Count(e.stages, "insert_one") = 1
                               /\ e.outcome = "inserted" \/ InsertFault(e)
                               /\ e.outcome = "inserted" =>
                                      e.after = Append(e.before,
                                                       [id |-> Len(e.before) + 1, doc |-> d])

\* an Enhanced run has flagged a candidate with doi X and dataset names {A, B}
\* against a stored record with doi X and dataset names {A}
C3_Witness ==
    /\ dup_choice = "2"
    /\ Len(log) = 1
    /\ log[1].outcome = "skipped"
    /\ CandidateNames(Doc(log[1].file)) = {"A", "B"}
    /\ Len(log[1].before) = 1
    /\ StoredNames(log[1].before[1].doc) = {"A"}
    /\ Reported(log[1].file, "doi+dataset")

(***************************************************************************)
(* C4.  Disabled mode (menu choice 1): no find_one is issued at any point  *)
(* of the run, nothing is counted or reported as duplicate, and every file *)
(* that decodes to a schema-valid document goes to insert_one, whatever    *)
(* the store holds, and is inserted unless that call raises.               *)
(***************************************************************************)
C4_DisabledNeverLooksUp ==
    (dup_choice = "1" /\ InRun) =>
        /\ Count(stages, "find_one") = 0
        /\ count_skipped = 0
        /\ duplicate_report = <<>>
        /\ "duplicate_report.json" \notin written
        /\ \A i \in DOMAIN log :
              LET e == log[i]
              IN  /\ Count(e.stages, "find_one") = 0
                  /\ e.outcome # "skipped"
                  /\ (Decodes(e.file) /\ Validate(Doc(e.file))) =>
                        /\ Count(e.stages, "insert_one") = 1
                        /\ e.outcome = "inserted" \/ InsertFault(e)
                        /\ e.outcome = "inserted" => Len(e.after) = Len(e.before) + 1

\* a Disabled run has inserted a document whose doi and dataset name a stored
\* record already had
C4_Witness ==
    /\ dup_choice = "1"
    /\ pc = "done"
    /\ Len(log) = 1
    /\ log[1].outcome = "inserted"
    /\ \E j \in DOMAIN log[1].before :
          EnhancedDuplicate(log[1].before[j].doc, Doc(log[1].file))


(***************************************************************************)
(* C5.  As claimed: a decoded record whose ml_approaches is an empty list, *)
(* all other fields well-formed, is Rejected-Invalid (counted, reported)   *)
(* and not inserted.                                                       *)
(***************************************************************************)
\* d has an empty ml_approaches and validates once one approach is put in it
EmptyApproaches(d) ==
    /\ d.k = "object"
    /\ "ml_approaches" \in DOMAIN d.v
    /\ d.v["ml_approaches"].k = "array"
    /\ Len(d.v["ml_approaches"].v) = 0
    /\ WellFormed(JObj(With(d.v, "ml_approaches", JArr(<<GoodApproach>>))))

ValidationReported(n) == \E i \in DOMAIN validation_report : validation_report[i].file = n

C5_EmptyApproachesRejected ==
    \A i \in DOMAIN log :
        (Decodes(log[i].file) /\ EmptyApproaches(Doc(log[i].file))) =>
            /\ log[i].outcome = "invalid"
            /\ ValidationReported(log[i].file)
            /\ log[i].after = log[i].before

(***************************************************************************)
(* C5, amended.  The schema sets no minimum length: a decoded record whose *)
(* ml_approaches is an empty list, all other fields well-formed, passes    *)
(* validation, is not counted or reported as invalid and goes on to the    *)
(* duplicate check and insert; a record whose ml_approaches is absent, is  *)
(* not a list, or has an element without algorithm or results is           *)
(* Rejected-Invalid and not inserted.                                      *)
(***************************************************************************)
BadApproaches(d) ==
    /\ d.k = "object"
    /\ \/ "ml_approaches" \notin DOMAIN d.v
       \/ d.v["ml_approaches"].k # "array"
       \/ \E i \in DOMAIN d.v["ml_approaches"].v :
             LET a == d.v["ml_approaches"].v[i]
             IN  a.k # "object" \/ ~({"algorithm", "results"} \subseteq DOMAIN a.v)

C5_EmptyApproachesAccepted ==
    \A i \in DOMAIN log :
        LET e == log[i]
            d == Doc(e.file)
        IN  /\ (Decodes(e.file) /\ EmptyApproaches(d)) =>
                  /\ e.outcome # "invalid"
                  /\ ~ValidationReported(e.file)
                  /\ Before(e.stages, "validate", "find_one")
                        \/ Before(e.stages, "validate", "insert_one")
            /\ (Decodes(e.file) /\ BadApproaches(d)) =>
                  /\ e.outcome = "invalid"
                  /\ ValidationReported(e.file)
                  /\ e.after = e.before

\* a record with an empty ml_approaches has been inserted
C5_Witness ==
    /\ Len(log) = 1
    /\ Decodes(log[1].file)
    /\ EmptyApproaches(Doc(log[1].file))
    /\ log[1].outcome = "inserted"
    /\ Last(collection).doc = Doc(log[1].file)

(***************************************************************************)
(* C6.  Every record a run inserts carries the eight required top-level    *)
(* fields, algorithm and results in every element of ml_approaches, and    *)
(* only scalar results values, and is the record the store gained; a       *)
(* decoded record that lacks a required field or holds an object or array  *)
(* results value is Rejected-Invalid and leaves the store as it was.       *)
(***************************************************************************)
C6_StoreInvariant ==
    \A i \in DOMAIN log :
        LET e == log[i]
            d == Doc(e.file)
        IN  /\ e.outcome = "inserted" =>
                  /\ Decodes(e.file)
                  /\ WellFormed(d)
                  /\ e.after = Append(e.before, [id |-> Len(e.before) + 1, doc |-> d])
            /\ e.outcome # "inserted" => e.after = e.before
            /\ (Decodes(e.file) /\ Defective(d)) =>
                  /\ e.outcome = "invalid"
                  /\ ValidationReported(e.file)

\* one run has inserted a well-formed record and rejected one without doi
C6_Witness ==
    /\ pc = "done"
    /\ Len(log) = 2
    /\ log[1].outcome = "inserted"
    /\ log[2].outcome = "invalid"
    /\ "doi" \notin Keys(Doc(log[2].file))
    /\ Len(collection) = Len(log[1].before) + 1

(***************************************************************************)
(* C7.  Once the loop over the files has begun, the run is never ended by  *)
(* a fault of one file: it does not leave the function through an          *)
(* exception, and when the loop is over every .json file of the directory  *)
(* has its outcome.                                                        *)
(***************************************************************************)
C7_NoFaultAbortsRun ==
    /\ pc # "crashed"
    /\ pc \in {"summary", "done"} => Len(log) = Cardinality(JsonFiles(Len(files)))

(***************************************************************************)
(* C8.  Stage order of each file: insert_one is called at most once, and   *)
(* only after the decode succeeded, validation succeeded and, under menu   *)
(* choice 2 or 3, a find_one that matched nothing; a file that does not    *)
(* decode is a load error after open and load alone; an invalid file sees  *)
(* no find_one and no insert_one; a duplicate is reported with the _id of  *)
(* a stored record and leaves the store as it was.                         *)
(***************************************************************************)
StageOrder(q) ==
    /\ Count(q, "insert_one") <= 1
    /\ Count(q, "insert_one") = 1 =>
          /\ Before(q, "load", "validate")
          /\ Before(q, "validate", "insert_one")
          /\ dup_choice \in {"2", "3"} => Before(q, "find_one", "insert_one")

C8_StageOrdering ==
    /\ InRun => StageOrder(stages)
    /\ \A i \in DOMAIN log :
          LET e == log[i]
          IN  /\ StageOrder(e.stages)
              /\ ~Decodes(e.file) =>
                    e.outcome = "load_error" /\ e.stages = <<"open", "load">>
              /\ e.outcome = "invalid" =>
                    Count(e.stages, "find_one") = 0 /\ Count(e.stages, "insert_one") = 0
              /\ e.outcome = "skipped" =>
                    /\ Count(e.stages, "insert_one") = 0
                    /\ e.after = e.before
                    /\ \E n \in DOMAIN duplicate_report :
                          /\ duplicate_report[n].file = e.file
                          /\ \E j \in DOMAIN e.before :
                                e.before[j].id = duplicate_report[n].existing_id

(***************************************************************************)
(* C9.  When a run has ended, each of the three report files has been      *)
(* written by this run exactly if its list is non-empty, and then holds    *)
(* the entries of the list in the order they were appended; before the end *)
(* of the run nothing is written.                                          *)
(***************************************************************************)
ReportList(name) ==
    CASE name = "duplicate_report.json"  -> duplicate_report
      [] name = "validation_report.json" -> validation_report
      [] OTHER                           -> load_error_report

C9_ReportsWrittenIffNonEmpty ==
    /\ pc = "done" =>
          /\ written \subseteq ReportNames
          /\ \A name \in ReportNames :
                /\ name \in written <=> Len(ReportList(name)) > 0
                /\ name \in written =>
                      name \in DOMAIN disk /\ disk[name] = ReportList(name)
    /\ (InRun /\ pc # "done") => written = {}

\* a run ended with a duplicate and a load error and no invalid file: two
\* reports written, in append order, the third not
C9_Witness ==
    /\ pc = "done"
    /\ written = {"duplicate_report.json", "load_error_report.json"}
    /\ duplicate_report[1].file = 1 /\ load_error_report[1].file = 2
    /\ disk["duplicate_report.json"] = duplicate_report
    /\ disk["load_error_report.json"] = load_error_report
    /\ "validation_report.json" \notin DOMAIN disk

(***************************************************************************)
(* C10.  Outcome conservation: at every point of a run the four counters   *)
(* add up to the number of .json files the loop is past, each report list  *)
(* is as long as its counter, and the store has grown by count_inserted    *)
(* records since the run began.                                            *)
(***************************************************************************)
StoreAtStart == IF Len(log) = 0 THEN collection ELSE log[1].before

C10_OutcomeConservation ==
    InRun =>
        /\ count_inserted + count_skipped + count_invalid + count_load_errors
              = Cardinality(JsonFiles(Processed))
        /\ Len(duplicate_report) = count_skipped
        /\ Len(validation_report) = count_invalid
        /\ Len(load_error_report) = count_load_errors
        /\ Len(collection) = Len(StoreAtStart) + count_inserted

\* a run over two .json files ended with one inserted and one load error
C10_Witness ==
    /\ pc = "done"
    /\ Cardinality(JsonFiles(Len(files))) = 2
    /\ count_inserted = 1 /\ count_load_errors = 1
    /\ count_skipped = 0 /\ count_invalid = 0

====
